---- MODULE Spec2Model ----
(***************************************************************************)
(* Model of pyblp/results/simulation_results.py: the SimulationResults     *)
(* constructor (the copy of the panel data with prices and shares          *)
(* overlaid, delta, the computation time, the per-market diagnostic        *)
(* vectors), SimulationResults.to_problem (the defaults of its arguments)  *)
(* and SimulationResults.compute_micro (validation, the per-market         *)
(* generator, the aggregation loop, the warning and the return; one        *)
(* request, or two sequential requests on the same object).                *)
(*                                                                         *)
(* Numbers.  micro is an array of options.dtype floats.  A float is        *)
(* modelled as a non-negative integer count of the smallest representable  *)
(* step, and every division and addition rounds its exact result to        *)
(* MantissaBits significant bits, ties to even, as IEEE-754 arithmetic     *)
(* does (with 53 bits for float64; the model uses a short mantissa so that *)
(* rounding happens on small numbers).                                     *)
(***************************************************************************)
EXTENDS Integers, Sequences, FiniteSets, TLC

\* ------------------------------------------------------------------ bounds
MaxCount == 2
MaxErrors == 2
MantissaBits == 3

\* The numbers of specifications a micro_moments argument may hold.
MomentCounts == {0, 1, 2}

\* Raw per-market contributions a market computation may return (in steps).
RawValues == {2, 16}

\* ------------------------------------------------------- the simulation
\* Simulation.unique_market_ids: the canonical sequence of distinct markets.
unique_market_ids == <<1, 2, 3>>

NumMarkets == Len(unique_market_ids)

Markets == {unique_market_ids[i] : i \in 1..NumMarkets}

\* Simulation._product_market_indices: the panel rows of each market.
product_market_indices == <<{1}, {2, 3}, {4}>>

\* The number of observations (panel rows) of market t.
NumObs(t) == Cardinality(product_market_indices[t])

\* The rows of the panel.
PanelRows == UNION {product_market_indices[t] : t \in Markets}

\* ------------------------------------------------------- float arithmetic
RECURSIVE Pow2(_)
Pow2(e) == IF e = 0 THEN 1 ELSE 2 * Pow2(e - 1)

\* The exponent of n/d: the least e >= 0 with n/d < 2^(MantissaBits + e).
RECURSIVE ExponentOf(_, _, _)
ExponentOf(n, d, e) ==
    IF n < d * Pow2(MantissaBits + e) THEN e ELSE ExponentOf(n, d, e + 1)

\* n/d rounded to the nearest integer, ties to the even one.
RoundHalfEven(n, d) ==
    LET q == n \div d
        r == n % d
    IN  IF 2 * r < d THEN q
        ELSE IF 2 * r > d THEN q + 1
        ELSE IF q % 2 = 0 THEN q ELSE q + 1

\* The float nearest to the exact rational n/d (n >= 0, d > 0).
RoundToFloat(n, d) ==
    LET s == Pow2(ExponentOf(n, d, 0))
    IN  s * RoundHalfEven(n, d * s)

\* micro_t / moments.market_counts[indices], one entry (line 202).
FloatDivide(x, c) == RoundToFloat(x, c)

\* micro[indices] += ..., one entry (line 202).
FloatAdd(x, y) == RoundToFloat(x + y, 1)

\* --------------------------------------------------------------- state
VARIABLES
    pc,             \* where the compute_micro request is
    parallel,       \* whether generate_items runs on a process pool
    micro_moments,  \* the argument: one Moment (its market_ids) per entry
    moments,        \* EconomyMoments(self.simulation, micro_moments)
    micro,          \* the accumulator of line 196
    errors,         \* the batch error list of line 169
    items,          \* the work items market_factory has built, in order
    results,        \* what safely_compute_micro returned, per market
    ready,          \* pool mode: completed markets not yet yielded, in completion order
    cur,            \* the loop variable t of line 200
    order,          \* the markets whose loop body has finished, in order
    out,            \* everything passed to output(), in order
    returned,       \* what compute_micro returned to its caller: <<>> or <<micro>>
    iteration_stats,            \* the argument of __init__: (key, stats) in insertion order
    constructed,                \* "pending", "ok", or the exception __init__ raised
    fp_converged,               \* self.fp_converged (<<>> while unset)
    fp_iterations,              \* self.fp_iterations
    contraction_evaluations,    \* self.contraction_evaluations
    prices,                     \* the argument of __init__: one price per panel row
    shares,                     \* the argument of __init__: one share per panel row
    start_time,                 \* the argument of __init__
    end_time,                   \* the argument of __init__
    product_data,               \* self.product_data: a reference into heap (0 while unset)
    delta,                      \* self.delta (<<>> while unset)
    computation_time,           \* self.computation_time (<<>> while unset)
    heap,           \* the record arrays in memory, by reference
    run,            \* which compute_micro request on this object is under way
    previous,       \* the request before: <<>>, or <<what it was given and returned>>
    simulation,     \* the fields of the parent simulation that to_problem reads
    given,          \* the arguments of to_problem, "None" where omitted
    problem         \* what to_problem handed to Problem ("None" fields before the call)

\* The request of compute_micro.
microVars == <<pc, parallel, micro_moments, moments, micro, errors, items, results,
               ready, cur, order, out, returned>>

\* The construction of the SimulationResults and its diagnostic vectors.
initVars == <<iteration_stats, constructed, fp_converged, fp_iterations,
              contraction_evaluations, prices, shares, start_time, end_time,
              product_data, delta, computation_time>>

\* Earlier requests on the same object.
rerunVars == <<run, previous>>

\* The call of to_problem.
problemVars == <<simulation, given, problem>>

\* What the steps of compute_micro other than market_factory never touch.
frameVars == <<heap, rerunVars, problemVars>>

vars == <<microVars, initVars, heap, rerunVars, problemVars>>

\* No moments structure yet: compute_micro has not reached line 176.
NoMoments == [MM |-> 0, market_indices |-> <<>>, market_counts |-> <<>>]

\* ----------------------------------------------- EconomyMoments (moments.py)
\* moments.market_indices[t]: the rows of the moments that market t backs.
MarketIndices(mm) == [t \in Markets |-> {m \in 1..Len(mm) : t \in mm[m]}]

\* Every moments structure the validator may build for the configuration mm:
\* one row per specification and one positive count per row.
EconomyMoments(mm) ==
    {[MM |-> Len(mm), market_indices |-> MarketIndices(mm), market_counts |-> c] :
        c \in [1..Len(mm) -> 1..MaxCount]}

\* ------------------------------------- market_factory (lines 183-193)
\* The work item of market s: the market and the panel rows its prices and
\* shares are sliced to.
market_factory(s) == [market |-> s, rows |-> product_market_indices[s]]

\* Mutant: the rows are taken out of the frame, which is left with zeros.
AfterSlicingMoved(h, r, s) ==
    [h EXCEPT ![r].prices = [i \in PanelRows |->
                                IF i \in product_market_indices[s] THEN 0 ELSE @[i]]]

\* Lines 185-188: the memory after market_factory(s); indexing a column with
\* an array of row numbers copies the rows and only reads the frame h[r].
AfterSlicing(h, r, s) == h

\* --------------------- SimulationResultsMarket.safely_compute_micro
\* The k soft errors of market t.
SoftErrors(t, k) == [i \in 1..k |-> <<t, i>>]

\* Every (micro_t, errors_t) a market computation may return for the rows it
\* backs: raw values and no error, or at least one soft error and the zero
\* fallback; or it raises a fatal (non-soft) exception.
Outcomes(t, rows) ==
    {[fatal |-> FALSE, micro_t |-> v, errors_t |-> <<>>] : v \in [rows -> RawValues]}
    \cup
    {[fatal |-> FALSE, micro_t |-> [m \in rows |-> 0], errors_t |-> SoftErrors(t, k)] :
        k \in 1..MaxErrors}
    \cup
    {[fatal |-> TRUE, micro_t |-> <<>>, errors_t |-> <<>>]}

\* The market computation and the moments structure are pure functions of
\* what they are given: a request that repeats an earlier one on the same
\* object gets, for the same moments and the same market, what that one got.
Computed(t, rows) ==
    IF previous = <<>> THEN Outcomes(t, rows) ELSE {previous[1].results[t]}

Structured(mm) ==
    IF previous = <<>> THEN EconomyMoments(mm) ELSE {previous[1].moments}

\* ------------------------------------------ __init__ (lines 65-83)
\* The per-market solver statistics a mapping may hold.
MaxIterations == 1

SolverStats ==
    [converged : BOOLEAN, iterations : 0..MaxIterations, evaluations : 0..MaxIterations]

\* The keys of the mapping d, in insertion order.
Keys(d) == [i \in 1..Len(d) |-> d[i].key]

\* Every mapping from some of the markets to solver statistics, in every
\* insertion order.
StatsMappings ==
    {d \in UNION {[1..n -> [key : Markets, stats : SolverStats]] : n \in 0..NumMarkets} :
        \A i, j \in 1..Len(d) : d[i].key = d[j].key => i = j}

\* iteration_stats[t]: the position of key t in the mapping d, 0 when d has
\* no such key (a KeyError).
Position(d, t) ==
    IF \E i \in 1..Len(d) : d[i].key = t
    THEN CHOOSE i \in 1..Len(d) : d[i].key = t
    ELSE 0

\* Mutant: the list walks the mapping's own keys.
ComprehensionOverKeys(d, ids, field) ==
    [raised |-> FALSE,
     list |-> [i \in 1..Len(d) |->
                 CASE field = "converged" -> d[i].stats.converged
                   [] field = "iterations" -> d[i].stats.iterations
                   [] field = "evaluations" -> d[i].stats.evaluations]]

\* Mutant: a market without an entry is skipped.
RECURSIVE ComprehensionSkipping(_, _, _)
ComprehensionSkipping(d, ids, field) ==
    IF ids = <<>> THEN [raised |-> FALSE, list |-> <<>>]
    ELSE IF Position(d, Head(ids)) = 0 THEN ComprehensionSkipping(d, Tail(ids), field)
    ELSE LET rest == ComprehensionSkipping(d, Tail(ids), field)
             s == d[Position(d, Head(ids))].stats
             x == CASE field = "converged" -> s.converged
                    [] field = "iterations" -> s.iterations
                    [] field = "evaluations" -> s.evaluations
         IN  [raised |-> FALSE, list |-> <<x>> \o rest.list]

\* [iteration_stats[t].<field> for t in simulation.unique_market_ids], over the
\* markets ids in order: the list, or the KeyError of the first missing key.
RECURSIVE Comprehension(_, _, _)
Comprehension(d, ids, field) ==
    IF ids = <<>> THEN [raised |-> FALSE, list |-> <<>>]
    ELSE IF Position(d, Head(ids)) = 0 THEN [raised |-> TRUE, list |-> <<>>]
    ELSE LET rest == Comprehension(d, Tail(ids), field)
             s == d[Position(d, Head(ids))].stats
             x == CASE field = "converged" -> s.converged
                    [] field = "iterations" -> s.iterations
                    [] field = "evaluations" -> s.evaluations
         IN  IF rest.raised THEN rest
             ELSE [raised |-> FALSE, list |-> <<x>> \o rest.list]

\* Lines 75-83: the three diagnostic vectors of the mapping d.
Diagnostics(d, field) == Comprehension(d, unique_market_ids, field)

\* --------------------------------- the panel data (lines 69-72)
\* simulation.product_data before any results are built from it: the record
\* array the simulation holds, with its own prices and shares columns.
SimulatedPanel == [prices |-> [i \in PanelRows |-> 0], shares |-> [i \in PanelRows |-> 0]]

\* The columns a caller may pass as prices or as shares.
Columns == {[i \in PanelRows |-> v] : v \in {1, 2}}

\* Mutant: the results keep a reference to the simulation's own array.
CopyAliased(h, r) == [heap |-> h, ref |-> r]

\* Line 70: recarray.copy() allocates a new array with the same contents.
CopyOf(h, r) == [heap |-> Append(h, h[r]), ref |-> Len(h) + 1]

\* Lines 71-72: assigning to a column of a record array writes the values
\* into the array the reference points to.
SetColumn(h, r, column, values) == [h EXCEPT ![r][column] = values]

\* Lines 70-72: the copy with prices and shares overlaid.
Overlaid(h, r, p, s) ==
    LET copy == CopyOf(h, r)
    IN  [heap |-> SetColumn(SetColumn(copy.heap, copy.ref, "prices", p),
                            copy.ref, "shares", s),
         ref |-> copy.ref]

\* Line 73: simulation._compute_true_X1({'prices': prices}) @ simulation.beta
\* + simulation.xi, with prices the only column of X1 and a unit coefficient.
Xi == [i \in PanelRows |-> i]

ComputeDelta(p) == [i \in PanelRows |-> p[i] + Xi[i]]

\* ------------------------------------- the computation time (line 74)
MaxTime == 2

Times == 0..MaxTime

\* end_time - start_time: a float subtraction, rounded like every other
\* float operation; nothing looks at its sign.
FloatSubtract(x, y) ==
    IF x >= y THEN RoundToFloat(x - y, 1) ELSE 0 - RoundToFloat(y - x, 1)

\* __init__: lines 69-74 assign the fields; then the three vectors are
\* assigned in turn, the first KeyError ends the construction, and no object
\* is handed to the caller.
Construct ==
    /\ constructed = "pending"
    /\ LET o == Overlaid(heap, simulation.product_data, prices, shares)
       IN  /\ heap' = o.heap
           /\ product_data' = o.ref
    /\ delta' = ComputeDelta(prices)
    /\ computation_time' = <<FloatSubtract(end_time, start_time)>>
    /\ LET c == Diagnostics(iteration_stats, "converged")
           i == Diagnostics(iteration_stats, "iterations")
           e == Diagnostics(iteration_stats, "evaluations")
       IN  /\ fp_converged' = IF c.raised THEN fp_converged ELSE c.list
           /\ fp_iterations' = IF c.raised \/ i.raised THEN fp_iterations ELSE i.list
           /\ contraction_evaluations' =
                 IF c.raised \/ i.raised \/ e.raised THEN contraction_evaluations
                 ELSE e.list
           /\ constructed' = IF c.raised \/ i.raised \/ e.raised THEN "KeyError" ELSE "ok"
    /\ UNCHANGED <<iteration_stats, prices, shares, start_time, end_time>>
    /\ UNCHANGED <<microVars, rerunVars, problemVars>>

\* What a caller may store into a cell of the results' product_data.
Overwrites == {3}

\* A caller writes one cell of results.product_data after the construction.
WriteProductData(column, i, v) ==
    /\ constructed = "ok"
    /\ heap[product_data][column][i] # v
    /\ heap' = [heap EXCEPT ![product_data][column][i] = v]
    /\ UNCHANGED <<microVars, initVars, rerunVars, problemVars>>

\* ------------------------------------------- to_problem (lines 103-145)
\* An omitted argument, and an attribute that holds nothing.
None == "None"

\* The parent simulation: its panel data (a reference into heap), and the
\* formulations, agent data and integration configuration it was built with;
\* only the product formulations are always there.
Simulations ==
    [product_data : {1},
     product_formulations : {"simulation"},
     agent_formulation : {None, "simulation"},
     agent_data : {None, "simulation"},
     integration : {None, "simulation"}]

\* What a caller may pass to to_problem.
Arguments ==
    [product_formulations : {None, "caller"},
     product_data : {None, "caller"},
     agent_formulation : {None, "caller"},
     agent_data : {None, "caller"},
     integration : {None, "caller"}]

\* Every argument omitted.
NoArguments ==
    [product_formulations |-> None, product_data |-> None,
     agent_formulation |-> None, agent_data |-> None, integration |-> None]

\* to_problem has not been called.
NoProblem ==
    [state |-> "uncalled", product_formulations |-> None, product_data |-> None,
     agent_formulation |-> None, agent_data |-> None, integration |-> None]

\* Mutant: the attribute is taken whatever the caller passed.
DefaultOverriding(argument, attribute) == attribute

\* Lines 136-143: "if x is None: x = <attribute>".
Default(argument, attribute) == IF argument = None THEN attribute ELSE argument

\* to_problem: four arguments are defaulted (self.product_data is written
\* "results"), integration is handed on as it came, and line 144 asserts
\* that there are product formulations and product data.
to_problem ==
    /\ constructed = "ok"
    /\ problem.state = "uncalled"
    /\ LET product_formulations == Default(given.product_formulations,
                                           simulation.product_formulations)
           data == Default(given.product_data, "results")
           agent_formulation == Default(given.agent_formulation,
                                        simulation.agent_formulation)
           agent_data == Default(given.agent_data, simulation.agent_data)
       IN  problem' =
              IF product_formulations = None \/ data = None
              THEN [problem EXCEPT !.state = "AssertionError"]
              ELSE [state |-> "built",
                    product_formulations |-> product_formulations,
                    product_data |-> data,
                    agent_formulation |-> agent_formulation,
                    agent_data |-> agent_data,
                    integration |-> given.integration]
    /\ UNCHANGED <<simulation, given, heap>>
    /\ UNCHANGED <<microVars, initVars, rerunVars>>

\* The simulation the requests of compute_micro run on.
SolvedSimulation ==
    [product_data |-> 1, product_formulations |-> "simulation",
     agent_formulation |-> "simulation", agent_data |-> "simulation",
     integration |-> "simulation"]

\* No call of to_problem is under way.
Uncalled ==
    /\ simulation = SolvedSimulation
    /\ given = NoArguments
    /\ problem = NoProblem

\* The first request on the object.
FirstRun ==
    /\ run = 1
    /\ previous = <<>>

\* The memory before the construction: the simulation's panel only.
SimulationHeap == <<SimulatedPanel>>

\* The arguments of the construction the requests of compute_micro run on.
SolvedColumn == [i \in PanelRows |-> 1]

\* A constructed object with every market solved.
Solved ==
    /\ prices = SolvedColumn
    /\ shares = SolvedColumn
    /\ start_time = 0
    /\ end_time = 1
    /\ LET o == Overlaid(SimulationHeap, SolvedSimulation.product_data,
                         SolvedColumn, SolvedColumn)
       IN  /\ heap = o.heap
           /\ product_data = o.ref
    /\ delta = ComputeDelta(SolvedColumn)
    /\ computation_time = <<FloatSubtract(1, 0)>>

\* Nothing of lines 69-74 has run.
Unbuilt ==
    /\ heap = SimulationHeap
    /\ product_data = 0
    /\ delta = <<>>
    /\ computation_time = <<>>

\* The construction the requests of compute_micro run on: every market has
\* an entry.
SolvedStats ==
    [i \in 1..NumMarkets |->
        [key |-> unique_market_ids[i],
         stats |-> [converged |-> TRUE, iterations |-> 1, evaluations |-> 1]]]

\* ------------------------------------------------------ compute_micro
\* What output() is given: a line of text, or the MultipleErrors warning.
Text(line) == [text |-> line, errors |-> <<>>]

MultipleErrors(errs) == [text |-> "MultipleErrors", errors |-> errs]

Init ==
    /\ pc = "idle"
    /\ parallel \in BOOLEAN
    /\ micro_moments \in UNION {[1..n -> SUBSET Markets] : n \in MomentCounts}
    /\ moments = NoMoments
    /\ micro = <<>>
    /\ errors = <<>>
    /\ items = <<>>
    /\ results = <<>>
    /\ ready = <<>>
    /\ cur = 0
    /\ order = <<>>
    /\ out = <<>>
    /\ returned = <<>>
    /\ iteration_stats = SolvedStats
    /\ constructed = "ok"
    /\ fp_converged = Diagnostics(SolvedStats, "converged").list
    /\ fp_iterations = Diagnostics(SolvedStats, "iterations").list
    /\ contraction_evaluations = Diagnostics(SolvedStats, "evaluations").list
    /\ Solved
    /\ FirstRun
    /\ Uncalled

\* Lines 169-173: the error list, the progress message, the start time.
Start ==
    /\ pc = "idle"
    /\ constructed = "ok"
    /\ errors' = <<>>
    /\ out' = Append(out, Text("Computing micro moment values ..."))
    /\ pc' = "validating"
    /\ UNCHANGED <<parallel, micro_moments, moments, micro, items, results, ready,
                   cur, order, returned>>
    /\ UNCHANGED <<initVars, frameVars>>

\* Mutant: the check of moments.MM is missing.
ValidateUnchecked ==
    /\ pc = "validating"
    /\ moments' \in Structured(micro_moments)
    /\ pc' = "dispatching"
    /\ out' = out \o <<Text(""), Text("Micro Moments")>>
    /\ UNCHANGED <<parallel, micro_moments, micro, errors, items, results, ready,
                   cur, order, returned>>
    /\ UNCHANGED <<initVars, frameVars>>

\* Lines 176-180: structure the moments; no moment is a ValueError.
Validate ==
    /\ pc = "validating"
    /\ moments' \in Structured(micro_moments)
    /\ IF moments'.MM = 0
       THEN /\ pc' = "ValueError"
            /\ out' = out
       ELSE /\ pc' = "dispatching"
            /\ out' = out \o <<Text(""), Text("Micro Moments")>>
    /\ UNCHANGED <<parallel, micro_moments, micro, errors, items, results, ready,
                   cur, order, returned>>
    /\ UNCHANGED <<initVars, frameVars>>

\* Mutant: an accumulator left by an earlier request is used again.
DispatchReusing ==
    /\ pc = "dispatching"
    /\ micro' = IF DOMAIN micro = 1..moments.MM THEN micro
                ELSE [m \in 1..moments.MM |-> 0]
    /\ pc' = "aggregating"
    /\ UNCHANGED <<parallel, micro_moments, moments, errors, items, results, ready,
                   cur, order, out, returned>>
    /\ UNCHANGED <<initVars, frameVars>>

\* Lines 196-199: the zero accumulator and the generator.
Dispatch ==
    /\ pc = "dispatching"
    /\ micro' = [m \in 1..moments.MM |-> 0]
    /\ pc' = "aggregating"
    /\ UNCHANGED <<parallel, micro_moments, moments, errors, items, results, ready,
                   cur, order, out, returned>>
    /\ UNCHANGED <<initVars, frameVars>>

\* --------------------------------------------- generate_items (basics.py)
\* Mutant: the first market is handed over a second time.
DispatchKeysRepeated == Append(unique_market_ids, unique_market_ids[1])

\* Lines 197-199: the keys handed to generate_items.
DispatchKeys == unique_market_ids

\* generate_items walks its keys in order, one work item per key.
KeysLeft == Len(items) < Len(DispatchKeys)

NextKey == DispatchKeys[Len(items) + 1]

Built == {items[i].market : i \in 1..Len(items)}

\* Mutant: the loop swallows the exception and goes on to the next market.
OnYieldSwallowed(o) == IF o.fatal THEN "aggregating" ELSE "add"

\* Line 200, the for statement: a yielded pair enters the loop body; an
\* exception raised by the generator is not caught and leaves compute_micro.
OnYield(o) == IF o.fatal THEN "aborted" ELSE "add"

\* Sequential generator, one next(): build the next market's work item, run
\* its computation and yield the pair; a fatal exception leaves the loop.
NextItemSequential ==
    /\ pc = "aggregating"
    /\ ~parallel
    /\ KeysLeft
    /\ items' = Append(items, market_factory(NextKey))
    /\ \E o \in Computed(NextKey, moments.market_indices[NextKey]) :
          /\ results' = results @@ (NextKey :> o)
          /\ pc' = OnYield(o)
          /\ cur' = IF o.fatal THEN cur ELSE NextKey
    /\ UNCHANGED <<parallel, micro_moments, moments, micro, errors, ready, order,
                   out, returned>>
    /\ heap' = AfterSlicing(heap, product_data, NextKey)
    /\ UNCHANGED <<initVars, rerunVars, problemVars>>

\* Pool: the task feeder builds the next market's work item.
BuildItem ==
    /\ pc \in {"aggregating", "add", "extend"}
    /\ parallel
    /\ KeysLeft
    /\ items' = Append(items, market_factory(NextKey))
    /\ UNCHANGED <<pc, parallel, micro_moments, moments, micro, errors, results,
                   ready, cur, order, out, returned>>
    /\ heap' = AfterSlicing(heap, product_data, NextKey)
    /\ UNCHANGED <<initVars, rerunVars, problemVars>>

\* Pool: a worker finishes the computation of a built market; its return
\* value (or exception) waits in the pool's result queue.
Complete(t) ==
    /\ pc \in {"aggregating", "add", "extend"}
    /\ parallel
    /\ t \in Built
    /\ t \notin DOMAIN results
    /\ \A i \in 1..Len(ready) : ready[i] # t
    /\ ready' = Append(ready, t)
    /\ UNCHANGED <<pc, parallel, micro_moments, moments, micro, errors, items,
                   results, cur, order, out, returned>>
    /\ UNCHANGED <<initVars, frameVars>>

\* Pool, one next(): the oldest completed result is received and yielded (the
\* value the worker returned is drawn here, where it is first seen); a fatal
\* exception of the worker is raised here and leaves the loop.
NextItemPool ==
    /\ pc = "aggregating"
    /\ parallel
    /\ ready # <<>>
    /\ ready' = Tail(ready)
    /\ \E o \in Computed(Head(ready), moments.market_indices[Head(ready)]) :
          /\ results' = results @@ (Head(ready) :> o)
          /\ pc' = OnYield(o)
          /\ cur' = IF o.fatal THEN cur ELSE Head(ready)
    /\ UNCHANGED <<parallel, micro_moments, moments, micro, errors, items, order,
                   out, returned>>
    /\ UNCHANGED <<initVars, frameVars>>

\* Mutant: the loop also ends as soon as an error was collected.
ExhaustedOnError ==
    /\ pc = "aggregating"
    /\ \/ ~KeysLeft /\ ready = <<>> /\ Built \subseteq DOMAIN results
       \/ errors # <<>>
    /\ pc' = "reporting"
    /\ UNCHANGED <<parallel, micro_moments, moments, micro, errors, items, results,
                   ready, cur, order, out, returned>>
    /\ UNCHANGED <<initVars, frameVars>>

\* The generator is exhausted: every market was yielded.
Exhausted ==
    /\ pc = "aggregating"
    /\ ~KeysLeft
    /\ ready = <<>>
    /\ Built \subseteq DOMAIN results
    /\ pc' = "reporting"
    /\ UNCHANGED <<parallel, micro_moments, moments, micro, errors, items, results,
                   ready, cur, order, out, returned>>
    /\ UNCHANGED <<initVars, frameVars>>

\* ------------------------------------------ the loop body (lines 201-203)
\* Mutant: the contribution is assigned, not added (= for +=).
AddContributionAssigned(acc, t, micro_t) ==
    [m \in DOMAIN acc |->
        IF m \in moments.market_indices[t]
        THEN FloatDivide(micro_t[m], moments.market_counts[m])
        ELSE acc[m]]

\* Mutant: the divisor is the contributing market's own observation count.
AddContributionByMarket(acc, t, micro_t) ==
    [m \in DOMAIN acc |->
        IF m \in moments.market_indices[t]
        THEN FloatAdd(acc[m], FloatDivide(micro_t[m], NumObs(t)))
        ELSE acc[m]]

\* Mutant: the contribution is added as it came, without the division.
AddContributionUndivided(acc, t, micro_t) ==
    [m \in DOMAIN acc |->
        IF m \in moments.market_indices[t]
        THEN FloatAdd(acc[m], micro_t[m])
        ELSE acc[m]]

\* Mutant: the quotient of the market's first row is added to every row of
\* the accumulator (micro += ..., without the index).
AddContributionBroadcast(acc, t, micro_t) ==
    [m \in DOMAIN acc |->
        IF moments.market_indices[t] = {} THEN acc[m]
        ELSE LET f == CHOOSE i \in moments.market_indices[t] :
                         \A j \in moments.market_indices[t] : i <= j
             IN  FloatAdd(acc[m], FloatDivide(micro_t[f], moments.market_counts[f]))]

\* Mutant: one count per market, the count of the first row the market
\* backs, divides all of the market's contributions.
AddContributionOneCount(acc, t, micro_t) ==
    [m \in DOMAIN acc |->
        IF m \in moments.market_indices[t]
        THEN LET f == CHOOSE i \in moments.market_indices[t] :
                         \A j \in moments.market_indices[t] : i <= j
             IN  FloatAdd(acc[m], FloatDivide(micro_t[m], moments.market_counts[f]))
        ELSE acc[m]]

\* Lines 201-202: micro[indices] += micro_t / moments.market_counts[indices].
AddContribution(acc, t, micro_t) ==
    [m \in DOMAIN acc |->
        IF m \in moments.market_indices[t]
        THEN FloatAdd(acc[m], FloatDivide(micro_t[m], moments.market_counts[m]))
        ELSE acc[m]]

\* Mutant: the add works on a copy taken before other markets were added
\* (micro = zeros + ..., a lost update).
AddLosingUpdates ==
    /\ pc = "add"
    /\ micro' = AddContribution([m \in DOMAIN micro |-> 0], cur, results[cur].micro_t)
    /\ pc' = "extend"
    /\ UNCHANGED <<parallel, micro_moments, moments, errors, items, results, ready,
                   cur, order, out, returned>>
    /\ UNCHANGED <<initVars, frameVars>>

Add ==
    /\ pc = "add"
    /\ micro' = AddContribution(micro, cur, results[cur].micro_t)
    /\ pc' = "extend"
    /\ UNCHANGED <<parallel, micro_moments, moments, errors, items, results, ready,
                   cur, order, out, returned>>
    /\ UNCHANGED <<initVars, frameVars>>

\* Mutant: the list is replaced, not extended.
ExtendErrorsReplaced(errs, errors_t) == errors_t

\* Mutant: the market's errors are taken off its list last to first.
ExtendErrorsReversed(errs, errors_t) ==
    errs \o [i \in 1..Len(errors_t) |-> errors_t[Len(errors_t) + 1 - i]]

\* Line 203: errors.extend(errors_t).
ExtendErrors(errs, errors_t) == errs \o errors_t

Extend ==
    /\ pc = "extend"
    /\ errors' = ExtendErrors(errors, results[cur].errors_t)
    /\ order' = Append(order, cur)
    /\ pc' = "aggregating"
    /\ UNCHANGED <<parallel, micro_moments, moments, micro, items, results, ready,
                   cur, out, returned>>
    /\ UNCHANGED <<initVars, frameVars>>

\* ------------------------------------------ reporting (lines 206-216)
\* Mutant: the warning is output whether or not there are errors.
WarningAlways(errs) == <<Text(""), MultipleErrors(errs), Text("")>>

\* Lines 206-209: one warning that holds every collected error.
Warning(errs) ==
    IF errs # <<>> THEN <<Text(""), MultipleErrors(errs), Text("")>> ELSE <<>>

Report ==
    /\ pc = "reporting"
    /\ out' = out \o Warning(errors) \o <<Text(""), Text("Finished after"), Text("")>>
    /\ returned' = <<micro>>
    /\ pc' = "done"
    /\ UNCHANGED <<parallel, micro_moments, moments, micro, errors, items, results,
                   ready, cur, order>>
    /\ UNCHANGED <<initVars, frameVars>>

Next ==
    \/ Start
    \/ Validate
    \/ Dispatch
    \/ NextItemSequential
    \/ BuildItem
    \/ \E t \in Markets : Complete(t)
    \/ NextItemPool
    \/ Exhausted
    \/ Add
    \/ Extend
    \/ Report

Spec == Init /\ [][Next]_vars

\* ------------------------------------- the construction on its own
InitConstruction ==
    /\ pc = "idle"
    /\ parallel = FALSE
    /\ micro_moments = <<>>
    /\ moments = NoMoments
    /\ micro = <<>>
    /\ errors = <<>>
    /\ items = <<>>
    /\ results = <<>>
    /\ ready = <<>>
    /\ cur = 0
    /\ order = <<>>
    /\ out = <<>>
    /\ returned = <<>>
    /\ iteration_stats \in StatsMappings
    /\ constructed = "pending"
    /\ fp_converged = <<>>
    /\ fp_iterations = <<>>
    /\ contraction_evaluations = <<>>
    /\ prices = SolvedColumn
    /\ shares = SolvedColumn
    /\ start_time = 0
    /\ end_time = 1
    /\ Unbuilt
    /\ FirstRun
    /\ Uncalled

NextConstruction == Construct

SpecConstruction == InitConstruction /\ [][NextConstruction]_vars

\* --------------------------- the panel data and the time on their own
InitOverlay ==
    /\ pc = "idle"
    /\ parallel = FALSE
    /\ micro_moments = <<>>
    /\ moments = NoMoments
    /\ micro = <<>>
    /\ errors = <<>>
    /\ items = <<>>
    /\ results = <<>>
    /\ ready = <<>>
    /\ cur = 0
    /\ order = <<>>
    /\ out = <<>>
    /\ returned = <<>>
    /\ iteration_stats = SolvedStats
    /\ constructed = "pending"
    /\ fp_converged = <<>>
    /\ fp_iterations = <<>>
    /\ contraction_evaluations = <<>>
    /\ prices \in Columns
    /\ shares \in Columns
    /\ start_time \in Times
    /\ end_time \in Times
    /\ Unbuilt
    /\ FirstRun
    /\ Uncalled

NextOverlay ==
    \/ Construct
    \/ \E column \in {"prices", "shares"}, i \in PanelRows, v \in Overwrites :
          WriteProductData(column, i, v)

SpecOverlay == InitOverlay /\ [][NextOverlay]_vars

\* ------------------------------------------------ to_problem on its own
InitProblem ==
    /\ pc = "idle"
    /\ parallel = FALSE
    /\ micro_moments = <<>>
    /\ moments = NoMoments
    /\ micro = <<>>
    /\ errors = <<>>
    /\ items = <<>>
    /\ results = <<>>
    /\ ready = <<>>
    /\ cur = 0
    /\ order = <<>>
    /\ out = <<>>
    /\ returned = <<>>
    /\ iteration_stats = SolvedStats
    /\ constructed = "ok"
    /\ fp_converged = Diagnostics(SolvedStats, "converged").list
    /\ fp_iterations = Diagnostics(SolvedStats, "iterations").list
    /\ contraction_evaluations = Diagnostics(SolvedStats, "evaluations").list
    /\ Solved
    /\ FirstRun
    /\ simulation \in Simulations
    /\ given \in Arguments
    /\ problem = NoProblem

NextProblem == to_problem

SpecProblem == InitProblem /\ [][NextProblem]_vars

\* ------------------------------- two requests, one after the other
\* The caller calls compute_micro again with the same micro_moments, after
\* the first call has returned; the locals of the first call are garbage,
\* and what it was given and returned is remembered for the comparison.
Rerun ==
    /\ pc = "done"
    /\ run = 1
    /\ run' = 2
    /\ previous' = <<[moments |-> moments, results |-> results, returned |-> returned]>>
    /\ pc' = "idle"
    /\ items' = <<>>
    /\ results' = <<>>
    /\ cur' = 0
    /\ order' = <<>>
    /\ returned' = <<>>
    /\ UNCHANGED <<parallel, micro_moments, moments, micro, errors, ready, out>>
    /\ UNCHANGED <<initVars, heap, problemVars>>

InitRerun ==
    /\ Init
    /\ ~parallel

NextRerun ==
    \/ Start
    \/ Validate
    \/ Dispatch
    \/ NextItemSequential
    \/ Exhausted
    \/ Add
    \/ Extend
    \/ Report
    \/ Rerun

SpecRerun == InitRerun /\ [][NextRerun]_vars

\* ================================================================ claims
\* The rows of the moment vector, and the markets that back row m.
Rows == 1..moments.MM

Contributors(m) == {t \in Markets : m \in moments.market_indices[t]}

\* compute_micro returned its vector.
Finished == pc = "done"

\* R_t[m] / moments.market_counts[m].
Quotient(t, m) == FloatDivide(results[t].micro_t[m], moments.market_counts[m])

\* The sum of the quotients of row m over the markets of the sequence ms, in
\* that order, starting from the zero of line 196.
RECURSIVE SumInOrder(_, _)
SumInOrder(ms, m) ==
    IF ms = <<>> THEN 0
    ELSE LET t == ms[Len(ms)]
             rest == SumInOrder(SubSeq(ms, 1, Len(ms) - 1), m)
         IN  IF m \in moments.market_indices[t] THEN FloatAdd(rest, Quotient(t, m))
             ELSE rest

\* ---------------------------------------------------------------- C1
\* C1 as stated: a row backed by exactly two markets (both without errors)
\* returns R1/C1 + R2/C2, each contribution divided by its own market's
\* observation count.
C1_PerMarketCounts ==
    Finished =>
        \A m \in Rows : \A t1, t2 \in Markets :
            (/\ t1 < t2
             /\ Contributors(m) = {t1, t2}
             /\ results[t1].errors_t = <<>>
             /\ results[t2].errors_t = <<>>) =>
                returned[1][m] =
                    FloatAdd(FloatDivide(results[t1].micro_t[m], NumObs(t1)),
                             FloatDivide(results[t2].micro_t[m], NumObs(t2)))

\* C1 (amended): a row backed by exactly two markets returns R1/K + R2/K,
\* where K = moments.market_counts[m] is the one count of the row; each
\* contribution is divided before the sum.
C1_RowCount ==
    Finished =>
        \A m \in Rows : \A t1, t2 \in Markets :
            (t1 < t2 /\ Contributors(m) = {t1, t2}) =>
                returned[1][m] = FloatAdd(Quotient(t1, m), Quotient(t2, m))

\* A returned row backed by two markets of different observation counts, both
\* with a non-zero contribution, and a row count above one.
C1_Witness ==
    /\ Finished
    /\ \E m \in Rows : \E t1, t2 \in Markets :
          /\ t1 < t2
          /\ Contributors(m) = {t1, t2}
          /\ NumObs(t1) # NumObs(t2)
          /\ moments.market_counts[m] > 1
          /\ results[t1].micro_t[m] # 0
          /\ results[t2].micro_t[m] # results[t1].micro_t[m]

\* ---------------------------------------------------------------- C2
\* The batch error list a sequential run collects: the error lists of the
\* markets in canonical order.
RECURSIVE ErrorsInOrder(_)
ErrorsInOrder(ms) ==
    IF ms = <<>> THEN <<>>
    ELSE ErrorsInOrder(SubSeq(ms, 1, Len(ms) - 1)) \o results[ms[Len(ms)]].errors_t

SeqRange(q) == {q[i] : i \in 1..Len(q)}

\* C2 as stated: whatever the completion order, the final accumulator holds
\* the values of the canonical-order (sequential) run.
C2_SameAsSequential ==
    Finished => \A m \in Rows : returned[1][m] = SumInOrder(unique_market_ids, m)

\* C2 (amended): whatever the completion order, every row is the float sum,
\* in completion order, of the same per-market quotients, and the errors are
\* those of the sequential run up to order; the row equals the sequential
\* value when at most two markets back it.
C2_SameUpToRounding ==
    Finished =>
        /\ \A m \in Rows :
              /\ returned[1][m] = SumInOrder(order, m)
              /\ Cardinality(Contributors(m)) <= 2 =>
                    returned[1][m] = SumInOrder(unique_market_ids, m)
        /\ SeqRange(order) = SeqRange(unique_market_ids)
        /\ Len(errors) = Len(ErrorsInOrder(unique_market_ids))
        /\ SeqRange(errors) = SeqRange(ErrorsInOrder(unique_market_ids))

\* A pool run that finished in another order than the canonical one, with a
\* row backed by two markets that completed in reverse and differ in value.
C2_Witness ==
    /\ Finished
    /\ parallel
    /\ \E m \in Rows : \E i, j \in 1..Len(order) :
          /\ i < j
          /\ order[i] > order[j]
          /\ Contributors(m) = {order[i], order[j]}
          /\ results[order[i]].micro_t[m] # 0
          /\ results[order[j]].micro_t[m] # 0
          /\ results[order[i]].micro_t[m] # results[order[j]].micro_t[m]

\* ---------------------------------------------------------------- C3
\* The state of the request in the words of the state machine.
Phase(p) ==
    CASE p = "idle" -> "NotStarted"
      [] p = "validating" -> "Validating"
      [] p = "ValueError" -> "Failed"
      [] p = "dispatching" -> "Dispatching"
      [] p \in {"aggregating", "add", "extend"} -> "Aggregating"
      [] p = "aborted" -> "Aborted"
      [] p = "reporting" -> "Reporting"
      [] p = "done" -> "Done"

ForwardSteps ==
    {<<"NotStarted", "Validating">>, <<"Validating", "Dispatching">>,
     <<"Validating", "Failed">>, <<"Dispatching", "Aggregating">>,
     <<"Aggregating", "Reporting">>, <<"Aggregating", "Aborted">>,
     <<"Reporting", "Done">>}

\* C3: the request only moves forward through Validating, Dispatching,
\* Aggregating, Reporting, Done; a validation failure is terminal and comes
\* before any market is dispatched; Aggregating is left for Reporting only
\* when every market of the canonical set has been aggregated (a soft error
\* never ends it early), and otherwise only by a fatal exception.
C3_ForwardOnly ==
    /\ [](pc = "ValueError" =>
            items = <<>> /\ ready = <<>> /\ DOMAIN results = {} /\ order = <<>>)
    /\ [](pc \in {"reporting", "done"} => SeqRange(order) = Markets)
    /\ [][/\ Phase(pc') # Phase(pc) => <<Phase(pc), Phase(pc')>> \in ForwardSteps
          /\ pc = "ValueError" => pc' = "ValueError"
          /\ (Phase(pc) = "Aggregating" /\ Phase(pc') # "Aggregating") =>
                \/ pc' = "reporting" /\ SeqRange(order) = Markets
                \/ pc' = "aborted" /\ \E t \in DOMAIN results' : results'[t].fatal]_vars

\* A request that reported although a market had a soft error.
C3_Witness == pc = "reporting" /\ errors # <<>>

\* ---------------------------------------------------------------- C4
NothingDispatched ==
    /\ items = <<>>
    /\ ready = <<>>
    /\ DOMAIN results = {}
    /\ micro = <<>>
    /\ order = <<>>
    /\ returned = <<>>

\* C4 as stated: an empty specification list always fails with the
\* configuration error, and nothing was built, dispatched, written or
\* emitted before the failure.
C4_NoSideEffects ==
    /\ Len(micro_moments) = 0 => pc \in {"idle", "validating", "ValueError"}
    /\ pc = "ValueError" => Len(micro_moments) = 0 /\ NothingDispatched /\ out = <<>>

\* C4 (amended): an empty specification list always fails with the
\* configuration error, and nothing was built, dispatched or written before
\* the failure; the one thing emitted is the progress message of line 172.
C4_OnlyProgressMessage ==
    /\ Len(micro_moments) = 0 => pc \in {"idle", "validating", "ValueError"}
    /\ (Len(micro_moments) = 0 /\ pc = "validating") => ENABLED Validate
    /\ pc = "ValueError" =>
          /\ Len(micro_moments) = 0
          /\ NothingDispatched
          /\ out = <<Text("Computing micro moment values ...")>>

\* The request failed with the configuration error.
C4_Witness == pc = "ValueError" /\ Len(micro_moments) = 0

\* ---------------------------------------------------------------- C5
\* The markets that returned at least one soft error.
SoftMarkets == {t \in DOMAIN results : results[t].errors_t # <<>>}

\* The sequence ms without the market f.
RECURSIVE Without(_, _)
Without(ms, f) ==
    IF ms = <<>> THEN <<>>
    ELSE IF Head(ms) = f THEN Without(Tail(ms), f)
    ELSE <<Head(ms)>> \o Without(Tail(ms), f)

\* The MultipleErrors warnings that were output.
Warnings == {i \in 1..Len(out) : out[i].text = "MultipleErrors"}

NoDuplicates(q) == \A i, j \in 1..Len(q) : q[i] = q[j] => i = j

\* C6: in one request no market is dispatched or aggregated twice, and when
\* the loop has ended every market of unique_market_ids was dispatched once
\* and aggregated once, whatever the completion order.
C6_ExactlyOnce ==
    /\ NoDuplicates([i \in 1..Len(items) |-> items[i].market])
    /\ NoDuplicates(order)
    /\ NoDuplicates(ready)
    /\ SeqRange(order) \cap SeqRange(ready) = {}
    /\ SeqRange(order) \cup SeqRange(ready) \subseteq Built
    /\ Built \subseteq Markets
    /\ pc \in {"reporting", "done"} =>
          /\ Len(items) = NumMarkets
          /\ Built = Markets
          /\ Len(order) = NumMarkets
          /\ SeqRange(order) = Markets

\* A pool run whose loop ended after the markets completed out of order.
C6_Witness ==
    /\ pc = "reporting"
    /\ parallel
    /\ order # unique_market_ids

\* ---------------------------------------------------------------- C7
\* The markets whose add has been applied: those whose loop body finished,
\* and the current one between line 202 and line 203.
Added == IF pc = "extend" THEN Append(order, cur) ELSE order

\* C7: the accumulator and the error list are written by the steps of the one
\* aggregation loop only, and in every state the accumulator holds exactly
\* the adds of the markets taken so far, each whole and once, and the error
\* list exactly the errors of the markets whose body finished: completions
\* of other markets in between change neither.
C7_SingleWriter ==
    /\ [](Phase(pc) \in {"Aggregating", "Aborted", "Reporting", "Done"} =>
            /\ DOMAIN micro = Rows
            /\ \A m \in Rows : micro[m] = SumInOrder(Added, m)
            /\ errors = ErrorsInOrder(order))
    /\ [][/\ micro' # micro => (pc = "dispatching" \/ (pc = "add" /\ pc' = "extend"))
          /\ errors' # errors => (pc = "extend" /\ pc' = "aggregating")
          /\ (pc \in {"add", "extend"} /\ pc' = pc) => (cur' = cur /\ order' = order)]_vars

\* A worker completed another market while the current market's add was
\* applied and its errors were not yet.
C7_Witness ==
    /\ pc = "extend"
    /\ parallel
    /\ ready # <<>>
    /\ order # <<>>
    /\ \E m \in moments.market_indices[cur] : results[cur].micro_t[m] # 0

\* ---------------------------------------------------------------- C8
\* A per-market worker raised a fatal exception that reached the loop.
FatalSeen == \E t \in DOMAIN results : results[t].fatal

\* C8: a fatal exception of a worker leaves compute_micro at once: nothing is
\* returned, and after it no market is aggregated and nothing is output.
C8_FatalAborts ==
    /\ [](FatalSeen <=> pc = "aborted")
    /\ [](pc = "aborted" => returned = <<>>)
    /\ [][pc = "aborted" => UNCHANGED <<pc, micro, errors, order, out, returned>>]_vars

\* A batch aborted after a market had been added to the accumulator.
C8_Witness ==
    /\ pc = "aborted"
    /\ order # <<>>
    /\ \E m \in Rows : micro[m] # 0

\* ---------------------------------------------------------------- C9
\* The statistics the mapping holds for market t.
StatsOf(t) == (CHOOSE e \in SeqRange(iteration_stats) : e.key = t).stats

\* C9: a constructed SimulationResults has three diagnostic vectors of the
\* length of unique_market_ids, whose entries at i are the converged,
\* iterations and evaluations of the i-th market of unique_market_ids,
\* whatever the insertion order of the mapping.
C9_MarketOrder ==
    constructed = "ok" =>
        /\ Len(fp_converged) = NumMarkets
        /\ Len(fp_iterations) = NumMarkets
        /\ Len(contraction_evaluations) = NumMarkets
        /\ \A i \in 1..NumMarkets :
              /\ fp_converged[i] = StatsOf(unique_market_ids[i]).converged
              /\ fp_iterations[i] = StatsOf(unique_market_ids[i]).iterations
              /\ contraction_evaluations[i] = StatsOf(unique_market_ids[i]).evaluations

\* A construction from a mapping inserted in another order than the
\* canonical one, whose markets differ in all three statistics.
C9_Witness ==
    /\ constructed = "ok"
    /\ Keys(iteration_stats) # unique_market_ids
    /\ \E i, j \in 1..NumMarkets :
          /\ fp_converged[i] # fp_converged[j]
          /\ fp_iterations[i] # fp_iterations[j]
          /\ contraction_evaluations[i] # contraction_evaluations[j]

\* ---------------------------------------------------------------- C10
\* Some market of unique_market_ids has no entry in the mapping.
EntryMissing == \E t \in Markets : t \notin SeqRange(Keys(iteration_stats))

\* C10: with an entry missing the construction ends in a KeyError, with no
\* diagnostic vector assigned and no object produced; a KeyError has no other
\* cause.
C10_MissingEntryFails ==
    /\ [](EntryMissing =>
            /\ constructed \in {"pending", "KeyError"}
            /\ fp_converged = <<>>
            /\ fp_iterations = <<>>
            /\ contraction_evaluations = <<>>)
    /\ [](constructed = "KeyError" => EntryMissing)
    /\ [][(constructed = "pending" /\ EntryMissing) => constructed' = "KeyError"]_vars

\* A construction that failed on a mapping that holds some of the markets.
C10_Witness ==
    /\ constructed = "KeyError"
    /\ iteration_stats # <<>>

\* ---------------------------------------------------------------- C11
\* C11: constructing the results overlays prices and shares on a copy; the
\* simulation's product_data, its prices and shares columns included, is what
\* it was before the construction, in every state after the construction and
\* after every later write to the results' product_data, which is another
\* array than the simulation's.
C11_CopyIndependence ==
    /\ heap[simulation.product_data] = SimulatedPanel
    /\ constructed = "ok" => product_data # simulation.product_data

\* Results whose columns were overlaid with other values than the
\* simulation holds, and one of whose prices a caller has overwritten since.
C11_Witness ==
    /\ constructed = "ok"
    /\ prices # SimulatedPanel.prices
    /\ heap[product_data].shares = shares
    /\ shares # SimulatedPanel.shares
    /\ \E i \in PanelRows :
          /\ heap[product_data].prices[i] \in Overwrites
          /\ heap[product_data].prices[i] # prices[i]

\* ---------------------------------------------------------------- C12
\* C12: computation_time is end_time minus start_time, and no results are
\* constructed from an end_time earlier than the start_time.
C12_NegativeTimeFlagged ==
    constructed = "ok" =>
        /\ computation_time = <<end_time - start_time>>
        /\ end_time >= start_time

\* ---------------------------------------------------------------- C13
\* C13: a second compute_micro request on the same results, with the same
\* micro_moments and the sequential generator, returns the vector the first
\* request returned, whatever the first request left behind.
C13_SameOnRerun ==
    (run = 2 /\ Finished) => returned = previous[1].returned

\* A second request that has returned, after a first one that returned a
\* vector with a non-zero row and collected a soft error.
C13_Witness ==
    /\ run = 2
    /\ Finished
    /\ \E m \in Rows : previous[1].returned[1][m] # 0
    /\ \E t \in Markets : previous[1].results[t].errors_t # <<>>

AllAggregated == SeqRange(order) = Markets

\* C15: the MultipleErrors warning is output only by the step that ends the
\* request, after every market was aggregated; that step outputs it exactly
\* when the batch error list is non-empty, with the whole list in it, and
\* returns the accumulator either way; a request outputs at most one warning.
C15_WarningAtEnd ==
    /\ [](Warnings # {} => (Finished /\ AllAggregated))
    /\ [](Cardinality(Warnings) <= 1)
    /\ [](Finished =>
            /\ (Warnings # {}) <=> (errors # <<>>)
            /\ \A i \in Warnings : out[i].errors = errors
            /\ returned = <<micro>>)
    /\ [][pc = "reporting" =>
            /\ AllAggregated
            /\ pc' = "done"
            /\ returned' = <<micro>>
            /\ (errors # <<>>) <=> (\E i \in 1..Len(out') : out'[i] = MultipleErrors(errors))]_vars

\* A request that returned a vector with a non-zero row and one warning
\* that holds the errors of two markets.
C15_Witness ==
    /\ Finished
    /\ Cardinality(Warnings) = 1
    /\ Cardinality(SoftMarkets) = 2
    /\ returned # <<>>
    /\ \E m \in Rows : returned[1][m] # 0

\* ---------------------------------------------------------------- C16
\* C16: whatever compute_micro requests were made on the results, and
\* however they ended, product_data, delta, computation_time and the three
\* diagnostic vectors are what the construction made them.
C16_ResultsUnchanged ==
    /\ heap[product_data] = [prices |-> SolvedColumn, shares |-> SolvedColumn]
    /\ delta = ComputeDelta(SolvedColumn)
    /\ computation_time = <<1>>
    /\ fp_converged = Diagnostics(SolvedStats, "converged").list
    /\ fp_iterations = Diagnostics(SolvedStats, "iterations").list
    /\ contraction_evaluations = Diagnostics(SolvedStats, "evaluations").list

\* A second request has returned, with soft errors collected; every market
\* was sliced out of product_data twice.
C16_Witness ==
    /\ run = 2
    /\ Finished
    /\ SoftMarkets # {}
    /\ Built = Markets

\* ---------------------------------------------------------------- C17
\* What to_problem passes for an argument that defaults to attribute.
PassedFor(argument, attribute) == IF argument = None THEN attribute ELSE argument

\* The claim as stated: every omitted argument of to_problem, integration
\* included, is replaced by the field the results or the simulation hold,
\* and every supplied one is passed as it came.
C17_EveryArgumentDefaulted ==
    problem.state = "built" =>
        /\ problem.product_formulations =
              PassedFor(given.product_formulations, simulation.product_formulations)
        /\ problem.product_data = PassedFor(given.product_data, "results")
        /\ problem.agent_formulation =
              PassedFor(given.agent_formulation, simulation.agent_formulation)
        /\ problem.agent_data = PassedFor(given.agent_data, simulation.agent_data)
        /\ problem.integration = PassedFor(given.integration, simulation.integration)

\* C17: to_problem replaces an omitted product_formulations,
\* agent_formulation or agent_data by the simulation's and an omitted
\* product_data by the results' own; integration is passed as it came, None
\* when omitted; every supplied argument is passed unchanged, and the
\* assertion of line 144 never fails.
C17_FourDefaults ==
    /\ problem.state # "AssertionError"
    /\ problem.state = "built" =>
          /\ problem.product_formulations =
                PassedFor(given.product_formulations, simulation.product_formulations)
          /\ problem.product_data = PassedFor(given.product_data, "results")
          /\ problem.agent_formulation =
                PassedFor(given.agent_formulation, simulation.agent_formulation)
          /\ problem.agent_data = PassedFor(given.agent_data, simulation.agent_data)
          /\ problem.integration = given.integration

\* A call that omitted product_data and integration and supplied agent_data,
\* on a simulation that holds an integration configuration.
C17_Witness ==
    /\ problem.state = "built"
    /\ given.product_data = None
    /\ given.integration = None
    /\ given.agent_data # None
    /\ simulation.integration # None
    /\ simulation.agent_data # None

\* ---------------------------------------------------------------- C18
\* The request is in the aggregation loop.
InLoop == pc \in {"aggregating", "add", "extend"}

\* C18: a step of the loop changes a row of the accumulator only when it is
\* the addition of the current market and the row is listed in
\* moments.market_indices of that market; the accumulator has moments.MM
\* rows throughout, the returned vector too, and a row that no market backs
\* is returned as zero.
C18_OnlyListedRows ==
    /\ [][InLoop =>
            \A m \in DOMAIN micro :
                micro'[m] # micro[m] =>
                    (pc = "add" /\ m \in moments.market_indices[cur])]_vars
    /\ []((InLoop \/ pc = "reporting" \/ Finished) => DOMAIN micro = Rows)
    /\ [](Finished =>
            /\ Len(returned[1]) = moments.MM
            /\ \A m \in Rows : Contributors(m) = {} => returned[1][m] = 0)

\* A returned vector of two rows: one that no market backs, and one that a
\* market made non-zero.
C18_Witness ==
    /\ Finished
    /\ moments.MM = 2
    /\ \E m \in Rows : Contributors(m) = {} /\ returned[1][m] = 0
    /\ \E m \in Rows : Contributors(m) # {} /\ returned[1][m] # 0

\* ---------------------------------------------------------------- C19
\* The number of errors in the lists of the markets ms.
RECURSIVE ErrorCount(_)
ErrorCount(ms) ==
    IF ms = <<>> THEN 0 ELSE Len(results[Head(ms)].errors_t) + ErrorCount(Tail(ms))

\* C19: from the start of the loop on, the batch error list is the error
\* lists of the markets whose loop body has finished, one after the other in
\* the order the markets finished and each in its own order; the end of a
\* loop body appends its market's list as it is, and no other step changes
\* the batch list; the final length is the sum of the lengths of the
\* markets' lists.
C19_ErrorsConcatenated ==
    /\ []((InLoop \/ pc = "reporting" \/ Finished) =>
            /\ errors = ErrorsInOrder(order)
            /\ Len(errors) = ErrorCount(order))
    /\ [][(pc = "extend" /\ pc' # "extend") =>
            /\ errors' = errors \o results[cur].errors_t
            /\ order' = Append(order, cur)]_vars
    /\ [][errors' # errors => (pc = "extend" /\ pc' # "extend")]_vars
    /\ [](Finished => (AllAggregated /\ NoDuplicates(order) /\ NoDuplicates(errors)))

\* A finished request in which two markets had soft errors, one of them two
\* errors, and the later market of the canonical sequence finished first.
C19_Witness ==
    /\ Finished
    /\ Cardinality(SoftMarkets) = 2
    /\ \E t \in SoftMarkets : Len(results[t].errors_t) = 2
    /\ Len(errors) = 3
    /\ \E i, j \in 1..Len(order) :
          /\ i < j
          /\ order[i] > order[j]
          /\ {order[i], order[j]} = SoftMarkets

\* ---------------------------------------------------------------- C20
\* The float sum, in the order ms, of the contributions to row m of the
\* markets of ms that back it, each divided by the one count c.
RECURSIVE RowSum(_, _, _)
RowSum(ms, m, c) ==
    IF ms = <<>> THEN 0
    ELSE LET t == ms[Len(ms)]
             before == RowSum(SubSeq(ms, 1, Len(ms) - 1), m, c)
         IN  IF m \in moments.market_indices[t]
             THEN FloatAdd(before, FloatDivide(results[t].micro_t[m], c))
             ELSE before

\* C20: the addition of market t adds to each row m it backs the market's
\* contribution divided by moments.market_counts[m], the count of the row,
\* whichever market t is; the returned row m is the float sum, in the order
\* the markets were aggregated, of the contributions of the markets that
\* back it, all divided by that one count.
C20_RowDivisor ==
    /\ [][(pc = "add" /\ pc' = "extend") =>
            \A m \in moments.market_indices[cur] :
                micro'[m] = FloatAdd(micro[m],
                                     FloatDivide(results[cur].micro_t[m],
                                                 moments.market_counts[m]))]_vars
    /\ [](Finished =>
            \A m \in Rows : returned[1][m] = RowSum(order, m, moments.market_counts[m]))

\* Two rows with different counts, both backed by a market of one
\* observation and a market of two, neither with an error.
C20_Witness ==
    /\ Finished
    /\ moments.MM = 2
    /\ moments.market_counts[1] # moments.market_counts[2]
    /\ \E t, u \in Markets :
          /\ NumObs(t) # NumObs(u)
          /\ {t, u} \subseteq Contributors(1) \cap Contributors(2)
          /\ {t, u} \cap SoftMarkets = {}
    /\ \A m \in Rows : returned[1][m] # 0

====
